---- MODULE Spec2Model ----
(***************************************************************************)
(* The feature-acquisition loop shared by the eight Paris directory        *)
(* scripts: for every category of a directory's category list(s), build    *)
(* the Overpass query, post it to the endpoints in list order until one    *)
(* answers with status 200 and a body that is processed without an         *)
(* exception, normalise the elements of that body into records, pause,     *)
(* and go on with the next category.                                       *)
(***************************************************************************)
EXTENDS Integers, Sequences, FiniteSets, TLC

VARIABLES
    script,     \* which directory script is running
    pc,         \* position of the acquisition function
    li,         \* index of the category list being iterated (1 or 2)
    ci,         \* index of the category inside that list
    ei,         \* index of the endpoint being tried
    success,    \* the local flag `success`
    data,       \* the result collections, one per category list
    request,    \* the last request handed to requests.post
    attempts,   \* number of requests issued for the current category
    response,   \* outcome of the last requests.post, while it is live
    printed,    \* the lines the last step wrote to stdout
    outcomes,   \* the finished categories and how each ended, in order
    base,       \* length of the current collection when the category began
    pauses,     \* number of completed time.sleep calls
    inflight,   \* number of requests issued and not yet returned or raised
    map,        \* the map the caller builds and saves
    standin,    \* replay harness: what each endpoint stand-in answers
    first,      \* replay harness: what the first run returned
    element,    \* normaliser harness: the raw element
    norm        \* normaliser harness: what the loop body did with it

vars == <<script, pc, li, ci, ei, success, data, request, attempts,
          response, printed, outcomes, base, pauses, inflight, map, standin,
          first, element, norm>>

(***************************************************************************)
(* Bounds of the model.                                                    *)
(***************************************************************************)
\* categories taken from the head of every category list
MaxCats == 2
\* longest 'elements' list of a response body
MaxElems == 2
\* most records the collections hold once a response is processed
MaxRecords == 2

(***************************************************************************)
(* Compiled-in configuration.                                              *)
(***************************************************************************)
Scripts == {"business", "emergency", "tourist", "restroom", "transport",
            "heatmap", "parking", "school"}

business_types ==
    <<"restaurant", "cafe", "bar", "shop", "supermarket", "pharmacy", "bank",
      "post_office", "library", "cinema", "theatre", "museum", "gallery",
      "hotel", "hospital", "clinic", "school", "university", "office",
      "government">>

emergency_types ==
    <<"hospital", "police", "fire_station", "pharmacy", "emergency_ward",
      "ambulance_station", "emergency_phone">>

attraction_types ==
    <<"museum", "gallery", "monument", "memorial", "castle", "historic",
      "tourism", "viewpoint", "artwork">>

restroom_amenity_types == <<"toilets", "wc", "restroom">>

transport_types ==
    <<"subway_entrance", "subway_station", "bus_station", "bus_stop",
      "train_station", "railway_station", "station", "platform">>

heatmap_amenity_types ==
    <<"restaurant", "cafe", "museum", "shop", "bank", "pharmacy", "hospital">>

parking_types ==
    <<"parking", "parking_space", "parking_entrance", "parking_lane",
      "parking_multi-storey">>

charging_types == <<"charging_station", "ev_charging", "ev_charging_station">>

school_types == <<"primary", "secondary", "kindergarten", "university">>

safety_types ==
    <<"crossing", "traffic_signals", "crossing_guard", "school_zone",
      "speed_bump", "pedestrian_zone", "footway">>

business_accessibility_features ==
    {"wheelchair", "hearing_loop", "braille", "tactile_paving", "elevator",
     "ramp", "wide_door", "accessible_toilet", "sign_language",
     "audio_description", "guide_dog"}

emergency_accessibility_features ==
    {"wheelchair", "hearing_loop", "braille", "tactile_paving", "elevator",
     "ramp", "wide_door", "accessible_toilet", "sign_language",
     "audio_description", "guide_dog", "emergency_phone",
     "emergency_lighting"}

transport_accessibility_features ==
    {"wheelchair", "elevator", "escalator", "lift", "tactile_paving",
     "braille", "audio_announcements", "visual_announcements", "wide_door",
     "ramp", "accessible_toilet", "guide_dog", "step_free_access",
     "level_access", "platform_height", "platform_slope"}

overpass_endpoints ==
    <<"https://overpass.kumi.systems/api/interpreter",
      "https://overpass-api.de/api/interpreter",
      "https://maps.mail.ru/osm/tools/overpass/api/interpreter">>

bbox == [north |-> "48.9025", south |-> "48.8156",
         east |-> "2.4025", west |-> "2.2241"]

\* the category lists a script iterates, in the order of its for loops
CategoryLists(s) ==
    CASE s = "business"  -> <<business_types>>
      [] s = "emergency" -> <<emergency_types>>
      [] s = "tourist"   -> <<attraction_types>>
      [] s = "restroom"  -> <<restroom_amenity_types>>
      [] s = "transport" -> <<transport_types>>
      [] s = "heatmap"   -> <<heatmap_amenity_types>>
      [] s = "parking"   -> <<parking_types, charging_types>>
      [] s = "school"    -> <<school_types, safety_types>>

Min(a, b) == IF a < b THEN a ELSE b

\* the categories of list l of script s the model runs
Categories(s, l) ==
    SubSeq(CategoryLists(s)[l], 1, Min(MaxCats, Len(CategoryLists(s)[l])))

NumLists(s) == Len(CategoryLists(s))

NumEndpoints == Len(overpass_endpoints)

(***************************************************************************)
(* Python values.  A dict is a function on its set of keys; a missing key  *)
(* is a key outside its DOMAIN.                                            *)
(***************************************************************************)
EmptyDict == [k \in {} |-> ""]

\* d.get(k, default)
Get(d, k, default) == IF k \in DOMAIN d THEN d[k] ELSE default

\* the JSON values float() converts, with the number each one denotes in
\* units of 0.0001 degree; float() raises on every other value
FloatTable == [v \in {"48.8566", "2.3522"} |->
                  IF v = "48.8566" THEN 488566 ELSE 23522]

CanFloat(v) == v \in DOMAIN FloatTable

\* float(v), for a value it converts
Float(v) == FloatTable[v]

\* str.title() on the category names of the lists that use it
TitleTable ==
    [restaurant |-> "Restaurant", cafe |-> "Cafe", bar |-> "Bar",
     shop |-> "Shop", supermarket |-> "Supermarket", pharmacy |-> "Pharmacy",
     bank |-> "Bank", post_office |-> "Post_Office", library |-> "Library",
     cinema |-> "Cinema", theatre |-> "Theatre", museum |-> "Museum",
     gallery |-> "Gallery", hotel |-> "Hotel", hospital |-> "Hospital",
     clinic |-> "Clinic", school |-> "School", university |-> "University",
     office |-> "Office", government |-> "Government", police |-> "Police",
     fire_station |-> "Fire_Station", emergency_ward |-> "Emergency_Ward",
     ambulance_station |-> "Ambulance_Station",
     emergency_phone |-> "Emergency_Phone",
     subway_entrance |-> "Subway_Entrance",
     subway_station |-> "Subway_Station", bus_station |-> "Bus_Station",
     bus_stop |-> "Bus_Stop", train_station |-> "Train_Station",
     railway_station |-> "Railway_Station", station |-> "Station",
     platform |-> "Platform", parking |-> "Parking",
     parking_space |-> "Parking_Space",
     parking_entrance |-> "Parking_Entrance",
     parking_lane |-> "Parking_Lane",
     charging_station |-> "Charging_Station", ev_charging |-> "Ev_Charging",
     ev_charging_station |-> "Ev_Charging_Station", crossing |-> "Crossing",
     traffic_signals |-> "Traffic_Signals",
     crossing_guard |-> "Crossing_Guard", school_zone |-> "School_Zone",
     speed_bump |-> "Speed_Bump", pedestrian_zone |-> "Pedestrian_Zone",
     footway |-> "Footway"]

Title(c) == IF c = "parking_multi-storey" THEN "Parking_Multi-Storey"
            ELSE TitleTable[c]

(***************************************************************************)
(* Scores and weights.                                                     *)
(***************************************************************************)
TouristScoreFlat(wheelchair, audio_guide, sign_language, braille) ==
      (IF wheelchair = "yes" THEN 1 ELSE 0)
    + (IF audio_guide = "yes" THEN 1 ELSE 0)
    + (IF sign_language = "yes" THEN 1 ELSE 0)
    + (IF braille = "yes" THEN 1 ELSE 0)

TouristScoreWheelchairOnly(wheelchair, audio_guide, sign_language, braille) ==
    IF wheelchair = "yes" THEN 2 ELSE 0

\* the tourist guide's accessibility score
TouristScore(wheelchair, audio_guide, sign_language, braille) ==
      (IF wheelchair = "yes" THEN 2 ELSE 0)
    + (IF audio_guide = "yes" THEN 1 ELSE 0)
    + (IF sign_language = "yes" THEN 1 ELSE 0)
    + (IF braille = "yes" THEN 1 ELSE 0)

RestroomScoreHeavy(wheelchair, baby_change, drinking_water, fee, access) ==
      (IF wheelchair = "yes" THEN 3 ELSE 0)
    + (IF baby_change = "yes" THEN 1 ELSE 0)
    + (IF drinking_water = "yes" THEN 1 ELSE 0)
    + (IF fee = "no" THEN 1 ELSE 0)
    + (IF access = "public" THEN 1 ELSE 0)

\* the restroom finder's facility score
RestroomScore(wheelchair, baby_change, drinking_water, fee, access) ==
      (IF wheelchair = "yes" THEN 2 ELSE 0)
    + (IF baby_change = "yes" THEN 1 ELSE 0)
    + (IF drinking_water = "yes" THEN 1 ELSE 0)
    + (IF fee = "no" THEN 1 ELSE 0)
    + (IF access = "public" THEN 1 ELSE 0)

\* the heatmap weight 1.0 / 0.5 / 0.0, in tenths
HeatWeight(wheelchair_status) ==
    IF wheelchair_status = "yes" THEN 10
    ELSE IF wheelchair_status = "limited" THEN 5 ELSE 0

(***************************************************************************)
(* The records the scripts append, one operator per append call.           *)
(***************************************************************************)
BusinessRecord(business_type, e) ==
    LET tags == Get(e, "tags", EmptyDict) IN
    [lat |-> Float(e["lat"]), lon |-> Float(e["lon"]),
     name |-> Get(tags, "name", Title(business_type)),
     type |-> business_type,
     wheelchair |-> Get(tags, "wheelchair", "unknown"),
     opening_hours |-> Get(tags, "opening_hours", "unknown"),
     phone |-> Get(tags, "phone", "unknown"),
     website |-> Get(tags, "website", "unknown"),
     email |-> Get(tags, "email", "unknown"),
     address |-> Get(tags, "addr:full", "unknown"),
     brand |-> Get(tags, "brand", "unknown"),
     operator |-> Get(tags, "operator", "unknown"),
     accessibility |-> [f \in business_accessibility_features |->
                           Get(tags, f, "unknown")]]

EmergencyRecord(service_type, e) ==
    LET tags == Get(e, "tags", EmptyDict) IN
    [lat |-> Float(e["lat"]), lon |-> Float(e["lon"]),
     name |-> Get(tags, "name", Title(service_type)),
     type |-> service_type,
     wheelchair |-> Get(tags, "wheelchair", "unknown"),
     opening_hours |-> Get(tags, "opening_hours", "unknown"),
     phone |-> Get(tags, "phone", "unknown"),
     website |-> Get(tags, "website", "unknown"),
     email |-> Get(tags, "email", "unknown"),
     address |-> Get(tags, "addr:full", "unknown"),
     brand |-> Get(tags, "brand", "unknown"),
     operator |-> Get(tags, "operator", "unknown"),
     emergency |-> Get(tags, "emergency", "unknown"),
     emergency_phone |-> Get(tags, "emergency_phone", "unknown"),
     emergency_lighting |-> Get(tags, "emergency_lighting", "unknown"),
     accessibility |-> [f \in emergency_accessibility_features |->
                           Get(tags, f, "unknown")]]

TouristRecord(attraction_type, e) ==
    LET tags == Get(e, "tags", EmptyDict)
        wheelchair == Get(tags, "wheelchair", "unknown")
        audio_guide == Get(tags, "audio_guide", "unknown")
        sign_language == Get(tags, "sign_language", "unknown")
        braille == Get(tags, "braille", "unknown")
    IN
    [lat |-> Float(e["lat"]), lon |-> Float(e["lon"]),
     score |-> TouristScore(wheelchair, audio_guide, sign_language, braille),
     name |-> Get(tags, "name", "Tourist Attraction"),
     type |-> attraction_type,
     wheelchair |-> wheelchair,
     opening_hours |-> Get(tags, "opening_hours", "unknown"),
     fee |-> Get(tags, "fee", "unknown"),
     website |-> Get(tags, "website", ""),
     description |-> Get(tags, "description", ""),
     audio_guide |-> audio_guide,
     sign_language |-> sign_language,
     braille |-> braille,
     historic |-> Get(tags, "historic", ""),
     wikipedia |-> Get(tags, "wikipedia", "")]

RestroomRecord(amenity, e) ==
    LET tags == Get(e, "tags", EmptyDict)
        wheelchair == Get(tags, "wheelchair", "unknown")
        fee == Get(tags, "fee", "unknown")
        access == Get(tags, "access", "unknown")
        baby_change == Get(tags, "baby_change", "unknown")
        drinking_water == Get(tags, "drinking_water", "unknown")
    IN
    [lat |-> Float(e["lat"]), lon |-> Float(e["lon"]),
     score |-> RestroomScore(wheelchair, baby_change, drinking_water, fee,
                             access),
     name |-> Get(tags, "name", "Public Restroom"),
     wheelchair |-> wheelchair,
     fee |-> fee,
     access |-> access,
     opening_hours |-> Get(tags, "opening_hours", "unknown"),
     baby_change |-> baby_change,
     drinking_water |-> drinking_water]

TransportRecord(facility_type, e) ==
    LET tags == Get(e, "tags", EmptyDict) IN
    [lat |-> Float(e["lat"]), lon |-> Float(e["lon"]),
     name |-> Get(tags, "name", Title(facility_type)),
     type |-> facility_type,
     wheelchair |-> Get(tags, "wheelchair", "unknown"),
     opening_hours |-> Get(tags, "opening_hours", "unknown"),
     operator |-> Get(tags, "operator", "unknown"),
     network |-> Get(tags, "network", "unknown"),
     ref |-> Get(tags, "ref", "unknown"),
     lines |-> Get(tags, "lines", "unknown"),
     routes |-> Get(tags, "routes", "unknown"),
     station_type |-> Get(tags, "station", "unknown"),
     platform_level |-> Get(tags, "platform:level", "unknown"),
     accessibility |-> [f \in transport_accessibility_features |->
                           Get(tags, f, "unknown")]]

HeatmapRecord(amenity, e) ==
    LET tags == Get(e, "tags", EmptyDict)
        wheelchair_status == Get(tags, "wheelchair", "unknown")
    IN
    [lat |-> Float(e["lat"]), lon |-> Float(e["lon"]),
     weight |-> HeatWeight(wheelchair_status),
     name |-> Get(tags, "name", "Unnamed"),
     type |-> Get(tags, "amenity", "Unknown")]

ParkingRecord(parking_type, e) ==
    LET tags == Get(e, "tags", EmptyDict) IN
    [lat |-> Float(e["lat"]), lon |-> Float(e["lon"]),
     name |-> Get(tags, "name", Title(parking_type)),
     type |-> parking_type,
     wheelchair |-> Get(tags, "wheelchair", "unknown"),
     fee |-> Get(tags, "fee", "unknown"),
     access |-> Get(tags, "access", "unknown"),
     opening_hours |-> Get(tags, "opening_hours", "unknown"),
     capacity |-> Get(tags, "capacity", "unknown"),
     disabled |-> Get(tags, "disabled", "unknown"),
     maxstay |-> Get(tags, "maxstay", "unknown"),
     operator |-> Get(tags, "operator", "unknown")]

ChargingRecord(charging_type, e) ==
    LET tags == Get(e, "tags", EmptyDict) IN
    [lat |-> Float(e["lat"]), lon |-> Float(e["lon"]),
     name |-> Get(tags, "name", Title(charging_type)),
     type |-> charging_type,
     operator |-> Get(tags, "operator", "unknown"),
     socket |-> Get(tags, "socket", "unknown"),
     voltage |-> Get(tags, "voltage", "unknown"),
     current |-> Get(tags, "current", "unknown"),
     fee |-> Get(tags, "fee", "unknown")]

SchoolRecord(school_type, e) ==
    LET tags == Get(e, "tags", EmptyDict) IN
    [lat |-> Float(e["lat"]), lon |-> Float(e["lon"]),
     name |-> Get(tags, "name", "School"),
     type |-> school_type,
     wheelchair |-> Get(tags, "wheelchair", "unknown"),
     opening_hours |-> Get(tags, "opening_hours", "unknown"),
     website |-> Get(tags, "website", ""),
     description |-> Get(tags, "description", ""),
     capacity |-> Get(tags, "capacity", "unknown")]

SafetyRecord(safety_type, e) ==
    LET tags == Get(e, "tags", EmptyDict) IN
    [lat |-> Float(e["lat"]), lon |-> Float(e["lon"]),
     type |-> safety_type,
     name |-> Get(tags, "name", Title(safety_type)),
     description |-> Get(tags, "description", "")]

\* the record script s appends for element e of category cat of its list l
Record(s, l, cat, e) ==
    CASE s = "business"  -> BusinessRecord(cat, e)
      [] s = "emergency" -> EmergencyRecord(cat, e)
      [] s = "tourist"   -> TouristRecord(cat, e)
      [] s = "restroom"  -> RestroomRecord(cat, e)
      [] s = "transport" -> TransportRecord(cat, e)
      [] s = "heatmap"   -> HeatmapRecord(cat, e)
      [] s = "parking"   -> IF l = 1 THEN ParkingRecord(cat, e)
                            ELSE ChargingRecord(cat, e)
      [] s = "school"    -> IF l = 1 THEN SchoolRecord(cat, e)
                            ELSE SafetyRecord(cat, e)

HasCoordsLatOnly(e) == "lat" \in DOMAIN e

HasCoordsAndTags(e) == {"lat", "lon", "tags"} \subseteq DOMAIN e

\* the guard of the loop body: 'lat' in element and 'lon' in element
HasCoords(e) == "lat" \in DOMAIN e /\ "lon" \in DOMAIN e

\* one pass of the loop body over element e: the element is skipped, the
\* construction of the record raises (element['lat'] or element['lon'] on
\* a missing key, float() on a value it cannot convert), or the record is
\* appended
LoopBody(s, l, cat, e) ==
    IF ~HasCoords(e) THEN [status |-> "dropped"]
    ELSE IF ~({"lat", "lon"} \subseteq DOMAIN e)
         THEN [status |-> "raised", error |-> "KeyError"]
    ELSE IF ~(CanFloat(e["lat"]) /\ CanFloat(e["lon"]))
         THEN [status |-> "raised", error |-> "ValueError"]
         ELSE [status |-> "appended", record |-> Record(s, l, cat, e)]

RECURSIVE ProcessElementsDistinct(_, _, _, _, _)
ProcessElementsDistinct(s, l, cat, elems, acc) ==
    IF elems = <<>> THEN [data |-> acc, raised |-> FALSE, error |-> "none"]
    ELSE LET b == LoopBody(s, l, cat, Head(elems)) IN
         CASE b.status = "dropped" ->
                  ProcessElementsDistinct(s, l, cat, Tail(elems), acc)
           [] b.status = "raised" ->
                  [data |-> acc, raised |-> TRUE, error |-> b.error]
           [] b.status = "appended" ->
                  ProcessElementsDistinct(
                      s, l, cat, Tail(elems),
                      IF \E i \in 1..Len(acc) : acc[i] = b.record THEN acc
                      ELSE Append(acc, b.record))

\* the for loop over the elements of a body, appending to collection acc
\* until the list ends or an exception leaves the loop
RECURSIVE ProcessElements(_, _, _, _, _)
ProcessElements(s, l, cat, elems, acc) ==
    IF elems = <<>> THEN [data |-> acc, raised |-> FALSE, error |-> "none"]
    ELSE LET b == LoopBody(s, l, cat, Head(elems)) IN
         CASE b.status = "dropped" ->
                  ProcessElements(s, l, cat, Tail(elems), acc)
           [] b.status = "raised" ->
                  [data |-> acc, raised |-> TRUE, error |-> b.error]
           [] b.status = "appended" ->
                  ProcessElements(s, l, cat, Tail(elems),
                                  Append(acc, b.record))

(***************************************************************************)
(* The query and the request.                                              *)
(***************************************************************************)
FiltersKeyOnly(s, l, cat) == <<<<"amenity">>>>

\* the tag filters of the node and way clauses of the query
Filters(s, l, cat) ==
    CASE s = "tourist"   -> <<<<"tourism", cat>>>>
      [] s = "transport" -> <<<<"public_transport", cat>>>>
      [] s = "heatmap"   -> <<<<"amenity", cat>>, <<"wheelchair">>>>
      [] s = "school" /\ l = 1 ->
             <<<<"amenity", "school">>, <<"school:type", cat>>>>
      [] OTHER           -> <<<<"amenity", cat>>>>

\* the Overpass QL text of the f-string, clause by clause
Query(s, l, cat) ==
    LET box == <<bbox.south, bbox.west, bbox.north, bbox.east>> IN
    <<"[out:json][timeout:25];",
      <<"node", Filters(s, l, cat), box>>,
      <<"way", Filters(s, l, cat), box>>,
      "out body;", ">;", "out skel qt;">>

PostArgsVerified(s, l, cat, endpoint) ==
    [url |-> endpoint, data |-> Query(s, l, cat), verify |-> TRUE,
     timeout |-> 30]

\* the arguments of requests.post
PostArgs(s, l, cat, endpoint) ==
    [url |-> endpoint, data |-> Query(s, l, cat), verify |-> FALSE,
     timeout |-> 30]

NoRequest == [url |-> "none"]

(***************************************************************************)
(* What requests.post can come back with.                                  *)
(***************************************************************************)
\* the raw elements the backend puts into a body
Plain == [lat |-> "48.8566", lon |-> "2.3522"]
NoLat == [lon |-> "2.3522"]
NoLon == [lat |-> "48.8566"]
BadLat == [lat |-> "abc", lon |-> "2.3522"]
Tagged == [lat |-> "48.8566", lon |-> "2.3522",
           tags |-> [wheelchair |-> "yes", fee |-> "no"]]

ElementPool == {Plain, Tagged, NoLat, NoLon, BadLat}

ElementLists == UNION {[1..n -> ElementPool] : n \in 0..MaxElems}

\* a JSON object with an 'elements' list, or one without the key
JsonBodies == {[elements |-> es] : es \in ElementLists}
              \cup {[remark |-> "runtime error"]}

Statuses == {200, 204, 429}

\* a body response.json() raises on, or one it parses into a JSON object
Bodies == {[parses |-> FALSE]}
          \cup {[parses |-> TRUE, json |-> j] : j \in JsonBodies}

Responses ==
    {[kind |-> "raise", error |-> x] : x \in {"ConnectionError", "Timeout"}}
    \cup {[kind |-> "http", status |-> st, body |-> b] :
              st \in Statuses, b \in Bodies}

NoResponse == [kind |-> "none"]

\* result.get('elements', []) of a response whose body parsed
ElementsOf(resp) == Get(resp.body.json, "elements", <<>>)

\* number of elements a response carries
Carried(resp) ==
    IF resp.kind = "http" /\ resp.body.parses THEN Len(ElementsOf(resp))
    ELSE 0

StatusAny2xx(st) == st >= 200 /\ st < 300

\* response.status_code == 200
StatusOK(st) == st = 200

AttemptReplacing(s, l, cat, resp, acc) ==
    IF resp.kind = "raise"
    THEN [data |-> acc, ok |-> FALSE, raised |-> TRUE, error |-> resp.error]
    ELSE IF ~StatusOK(resp.status)
    THEN [data |-> acc, ok |-> FALSE, raised |-> FALSE, error |-> "none"]
    ELSE IF ~resp.body.parses
    THEN [data |-> acc, ok |-> FALSE, raised |-> TRUE,
          error |-> "JSONDecodeError"]
    ELSE LET p == ProcessElements(s, l, cat, ElementsOf(resp), <<>>) IN
         IF p.raised
         THEN [data |-> p.data, ok |-> FALSE, raised |-> TRUE,
               error |-> p.error]
         ELSE [data |-> p.data, ok |-> TRUE, raised |-> FALSE,
               error |-> "none"]

AttemptNeedsElements(s, l, cat, resp, acc) ==
    IF resp.kind = "raise"
    THEN [data |-> acc, ok |-> FALSE, raised |-> TRUE, error |-> resp.error]
    ELSE IF ~StatusOK(resp.status)
    THEN [data |-> acc, ok |-> FALSE, raised |-> FALSE, error |-> "none"]
    ELSE IF ~resp.body.parses
    THEN [data |-> acc, ok |-> FALSE, raised |-> TRUE,
          error |-> "JSONDecodeError"]
    ELSE LET p == ProcessElements(s, l, cat, ElementsOf(resp), acc) IN
         IF p.raised
         THEN [data |-> p.data, ok |-> FALSE, raised |-> TRUE,
               error |-> p.error]
         ELSE [data |-> p.data, ok |-> ElementsOf(resp) # <<>>,
               raised |-> FALSE, error |-> "none"]

\* the body of the try statement for one endpoint, on collection acc:
\* requests.post raises, or the status is not accepted, or response.json()
\* raises, or the elements are processed
Attempt(s, l, cat, resp, acc) ==
    IF resp.kind = "raise"
    THEN [data |-> acc, ok |-> FALSE, raised |-> TRUE, error |-> resp.error]
    ELSE IF ~StatusOK(resp.status)
    THEN [data |-> acc, ok |-> FALSE, raised |-> FALSE, error |-> "none"]
    ELSE IF ~resp.body.parses
    THEN [data |-> acc, ok |-> FALSE, raised |-> TRUE,
          error |-> "JSONDecodeError"]
    ELSE LET p == ProcessElements(s, l, cat, ElementsOf(resp), acc) IN
         IF p.raised
         THEN [data |-> p.data, ok |-> FALSE, raised |-> TRUE,
               error |-> p.error]
         ELSE [data |-> p.data, ok |-> TRUE, raised |-> FALSE,
               error |-> "none"]

(***************************************************************************)
(* The acquisition function.                                               *)
(***************************************************************************)
Category == Categories(script, li)[ci]

EndpointStuck == overpass_endpoints[1]

Endpoint == overpass_endpoints[ei]

\* number of categories in the lists before list l
RECURSIVE Offset(_, _)
Offset(s, l) == IF l = 1 THEN 0
                ELSE Offset(s, l - 1) + Len(Categories(s, l - 1))

TotalCats(s) == Offset(s, NumLists(s)) + Len(Categories(s, NumLists(s)))

\* position of the current category in the concatenation of the lists
Cur == Offset(script, li) + ci

\* number of records in all collections
RECURSIVE Total(_)
Total(d) == IF d = <<>> THEN 0 ELSE Len(Head(d)) + Total(Tail(d))

\* a category loop has run out of categories at index c
ListDoneEarly(s, l, c) == c >= Len(Categories(s, l))

ListDone(s, l, c) == c > Len(Categories(s, l))

\* no map has been built
NoMap == [built |-> FALSE]

\* the run is not a replay against stand-ins
NoStandin == <<>>

\* no earlier run has returned
NoResult == [returned |-> FALSE]

InitRun ==
    /\ script \in Scripts
    /\ pc = "loop"
    /\ li = 1
    /\ ci = 1
    /\ ei = 1
    /\ success = FALSE
    /\ data = [l \in 1..NumLists(script) |-> <<>>]
    /\ request = NoRequest
    /\ attempts = 0
    /\ response = NoResponse
    /\ printed = <<>>
    /\ outcomes = <<>>
    /\ base = 0
    /\ pauses = 0
    /\ inflight = 0
    /\ map = NoMap

Init ==
    /\ InitRun
    /\ standin = NoStandin
    /\ first = NoResult
    /\ element = EmptyDict
    /\ norm = [status |-> "none"]

StartCategorySticky ==
    /\ pc = "loop"
    /\ ~ListDone(script, li, ci)
    /\ printed' = <<<<"Fetching data for", Category>>>>
    /\ success' = FALSE
    /\ attempts' = 0
    /\ base' = Len(data[li])
    /\ pc' = "post"
    /\ UNCHANGED <<script, li, ci, ei, data, request, response, outcomes,
                   pauses, inflight, map, standin, first, element, norm>>

\* top of a category loop with a category left: print, build the query,
\* clear the flag and enter the endpoint loop
StartCategory ==
    /\ pc = "loop"
    /\ ~ListDone(script, li, ci)
    /\ printed' = <<<<"Fetching data for", Category>>>>
    /\ success' = FALSE
    /\ ei' = 1
    /\ attempts' = 0
    /\ base' = Len(data[li])
    /\ pc' = "post"
    /\ UNCHANGED <<script, li, ci, data, request, response, outcomes, pauses,
                   inflight, map, standin, first, element, norm>>

\* the first category loop is over: the second one starts
NextList ==
    /\ pc = "loop"
    /\ ListDone(script, li, ci)
    /\ li < NumLists(script)
    /\ li' = li + 1
    /\ ci' = 1
    /\ printed' = <<>>
    /\ UNCHANGED <<script, pc, ei, success, data, request, attempts, response,
                   outcomes, base, pauses, inflight, map, standin, first,
                   element, norm>>

\* the last category loop is over: the collections are returned
Return ==
    /\ pc = "loop"
    /\ ListDone(script, li, ci)
    /\ li = NumLists(script)
    /\ pc' = "done"
    /\ printed' = <<>>
    /\ UNCHANGED <<script, li, ci, ei, success, data, request, attempts,
                   response, outcomes, base, pauses, inflight, map, standin,
                   first, element, norm>>

\* requests.post is called for the current endpoint and blocks
Post ==
    /\ pc = "post"
    /\ request' = PostArgs(script, li, Category, Endpoint)
    /\ attempts' = attempts + 1
    /\ inflight' = inflight + 1
    /\ response' = NoResponse
    /\ pc' = "wait"
    /\ printed' = <<>>
    /\ UNCHANGED <<script, li, ci, ei, success, data, outcomes, base, pauses,
                   map, standin, first, element, norm>>

RespondDetached ==
    /\ pc = "wait"
    /\ \E resp \in Responses :
          /\ Total(data) + Carried(resp) <= MaxRecords
          /\ response' = resp
    /\ pc' = "recv"
    /\ printed' = <<>>
    /\ UNCHANGED <<script, li, ci, ei, success, data, request, attempts,
                   outcomes, base, pauses, inflight, map, standin, first,
                   element, norm>>

\* the backend answers, the connection fails or the timeout expires
Respond ==
    /\ pc = "wait"
    /\ \E resp \in Responses :
          /\ Total(data) + Carried(resp) <= MaxRecords
          /\ response' = resp
    /\ inflight' = inflight - 1
    /\ pc' = "recv"
    /\ printed' = <<>>
    /\ UNCHANGED <<script, li, ci, ei, success, data, request, attempts,
                   outcomes, base, pauses, map, standin, first, element, norm>>

\* the lines an attempt and the code after the endpoint loop print
Lines(a, last, cat, endpoint) ==
    (IF a.ok THEN <<<<"Successfully fetched", cat, endpoint>>>>
     ELSE IF a.raised
          THEN <<<<"Error with endpoint", endpoint, cat, a.error>>>>
          ELSE <<>>)
    \o (IF ~a.ok /\ last
        THEN <<<<"Failed to fetch data for", cat>>>> ELSE <<>>)

NextEndpointSkip(i) == i + 2

NextEndpointSame(i) == i

\* the step of the for loop over the endpoints
NextEndpoint(i) == i + 1

HandleOneCollection ==
    /\ pc = "recv"
    /\ LET a == Attempt(script, li, Category, response, data[1])
           last == ei = NumEndpoints
       IN /\ data' = [data EXCEPT ![1] = a.data]
          /\ success' = a.ok
          /\ printed' = Lines(a, last, Category, Endpoint)
          /\ IF a.ok
             THEN /\ pc' = "sleep"
                  /\ ei' = ei
                  /\ outcomes' = Append(outcomes, <<Category, "Succeeded">>)
             ELSE IF last
             THEN /\ pc' = "sleep"
                  /\ ei' = ei
                  /\ outcomes' =
                         Append(outcomes, <<Category, "ExhaustedEndpoints">>)
             ELSE /\ pc' = "post"
                  /\ ei' = NextEndpoint(ei)
                  /\ outcomes' = outcomes
    /\ UNCHANGED <<script, li, ci, request, attempts, response, base, pauses,
                   inflight, map, standin, first, element, norm>>

\* the rest of the try statement, the except clause, and, when the endpoint
\* loop ends here, the check of the flag after it
Handle ==
    /\ pc = "recv"
    /\ LET a == Attempt(script, li, Category, response, data[li])
           last == ei = NumEndpoints
       IN /\ data' = [data EXCEPT ![li] = a.data]
          /\ success' = a.ok
          /\ printed' = Lines(a, last, Category, Endpoint)
          /\ IF a.ok
             THEN /\ pc' = "sleep"
                  /\ ei' = ei
                  /\ outcomes' = Append(outcomes, <<Category, "Succeeded">>)
             ELSE IF last
             THEN /\ pc' = "sleep"
                  /\ ei' = ei
                  /\ outcomes' =
                         Append(outcomes, <<Category, "ExhaustedEndpoints">>)
             ELSE /\ pc' = "post"
                  /\ ei' = NextEndpoint(ei)
                  /\ outcomes' = outcomes
    /\ UNCHANGED <<script, li, ci, request, attempts, response, base, pauses,
                   inflight, map, standin, first, element, norm>>

SleepSkipped ==
    /\ pc = "sleep"
    /\ ci' = ci + 1
    /\ response' = NoResponse
    /\ pc' = "loop"
    /\ printed' = <<>>
    /\ UNCHANGED <<script, li, ei, success, data, request, attempts, outcomes,
                   base, pauses, inflight, map, standin, first, element, norm>>

\* time.sleep(2), then the next iteration of the category loop
Sleep ==
    /\ pc = "sleep"
    /\ pauses' = pauses + 1
    /\ ci' = ci + 1
    /\ response' = NoResponse
    /\ pc' = "loop"
    /\ printed' = <<>>
    /\ UNCHANGED <<script, li, ei, success, data, request, attempts, outcomes,
                   base, inflight, map, standin, first, element, norm>>

(***************************************************************************)
(* The caller: create_*_map calls the acquisition function and renders     *)
(* what it returned.                                                       *)
(***************************************************************************)
NothingToRenderNever(s, d) == FALSE

\* the guard 'if not <collection>' of the caller: the scripts with two
\* collections test the first one only
NothingToRender(s, d) == d[1] = <<>>

\* the directory and the stem of the file m.save writes
OutputFile(s) ==
    CASE s = "business"  -> <<".", "paris_business_directory">>
      [] s = "emergency" -> <<".", "paris_emergency_services">>
      [] s = "tourist"   -> <<"output", "paris_tourist_guide">>
      [] s = "restroom"  -> <<"output", "paris_restroom_finder">>
      [] s = "transport" -> <<"output", "paris_transport_accessibility">>
      [] s = "heatmap"   -> <<".", "paris_wheelchair_heatmap">>
      [] s = "parking"   -> <<"output", "paris_parking_map">>
      [] s = "school"    -> <<".", "paris_school_safety_map">>

\* the records of a collection that that belong to keep, in order
RECURSIVE Select(_, _)
Select(recs, keep) ==
    IF recs = <<>> THEN <<>>
    ELSE (IF Head(recs) \in keep THEN <<Head(recs)>> ELSE <<>>)
         \o Select(Tail(recs), keep)

\* the color_scheme dict of the scripts that colour markers by type
color_scheme(s) ==
    CASE s = "business" ->
             [restaurant |-> "red", cafe |-> "orange", bar |-> "purple",
              shop |-> "blue", supermarket |-> "green", pharmacy |-> "yellow",
              bank |-> "gray", post_office |-> "pink", library |-> "brown",
              cinema |-> "darkred", theatre |-> "darkblue",
              museum |-> "darkgreen", gallery |-> "lightred",
              hotel |-> "lightblue", hospital |-> "lightgreen",
              clinic |-> "lightgray", school |-> "cadetblue",
              university |-> "darkpurple", office |-> "white",
              government |-> "black"]
      [] s = "emergency" ->
             [hospital |-> "red", police |-> "blue", fire_station |-> "orange",
              pharmacy |-> "green", emergency_ward |-> "darkred",
              ambulance_station |-> "lightred", emergency_phone |-> "purple"]
      [] s = "tourist" ->
             [museum |-> "red", monument |-> "blue", park |-> "green",
              gallery |-> "purple", theatre |-> "orange", church |-> "darkred",
              palace |-> "gold", garden |-> "lightgreen"]
      [] s = "transport" ->
             [subway_entrance |-> "red", subway_station |-> "darkred",
              bus_station |-> "blue", bus_stop |-> "lightblue",
              train_station |-> "green", railway_station |-> "darkgreen",
              station |-> "purple", platform |-> "orange"]

\* the colour of a restroom marker, from the score of the record
RestroomColor(score) ==
    IF score >= 4 THEN "green" ELSE IF score >= 2 THEN "yellow" ELSE "red"

HeatColorAlwaysGreen(weight) == "green"

\* the colour of a heatmap marker, from the weight of the record
HeatColor(weight) == IF weight = 10 THEN "green" ELSE "yellow"

\* the colour of a parking marker
ParkingColor(parking) ==
    IF parking.disabled = "yes" THEN "blue"
    ELSE IF parking.fee = "no" THEN "green" ELSE "red"

\* the colour of a safety-feature marker
SafetyColor(safety) ==
    IF safety.type = "crossing" THEN "green"
    ELSE IF safety.type = "traffic_signals" THEN "red"
    ELSE IF safety.type = "crossing_guard" THEN "yellow" ELSE "gray"

\* the colour of the marker of record r of collection l
MarkerColor(s, l, r) ==
    CASE s = "restroom" -> RestroomColor(r.score)
      [] s = "heatmap"  -> HeatColor(r.weight)
      [] s = "parking"  -> IF l = 1 THEN ParkingColor(r) ELSE "purple"
      [] s = "school"   -> IF l = 1 THEN "blue" ELSE SafetyColor(r)
      [] OTHER          -> Get(color_scheme(s), r.type, "gray")

\* the records of a collection that get a marker: every record, except in
\* the heatmap, which draws those of positive weight
Drawn(s, recs) ==
    IF s = "heatmap"
    THEN Select(recs, {r \in {recs[i] : i \in 1..Len(recs)} : r.weight > 0})
    ELSE recs

\* the markers the marker loops add, per collection, each with the record
\* it is drawn for and its colour
Markers(s, d) ==
    [l \in DOMAIN d |->
        [i \in 1..Len(Drawn(s, d[l])) |->
            [record |-> Drawn(s, d[l])[i],
             color |-> MarkerColor(s, l, Drawn(s, d[l])[i])]]]

\* the caller finds nothing to render: it prints and returns
Abort ==
    /\ pc = "done"
    /\ NothingToRender(script, data)
    /\ pc' = "aborted"
    /\ printed' = <<<<"No data found. Please try again later.">>>>
    /\ UNCHANGED <<script, li, ci, ei, success, data, request, attempts,
                   response, outcomes, base, pauses, inflight, map, standin,
                   first, element, norm>>

\* the caller builds the map, adds the markers and saves the file
Render ==
    /\ pc = "done"
    /\ ~NothingToRender(script, data)
    /\ map' = [built |-> TRUE, markers |-> Markers(script, data),
               file |-> OutputFile(script)]
    /\ pc' = "rendered"
    /\ printed' = <<<<"saved as", OutputFile(script)[2]>>,
                    <<"Found", [l \in DOMAIN data |-> Len(data[l])]>>>>
    /\ UNCHANGED <<script, li, ci, ei, success, data, request, attempts,
                   response, outcomes, base, pauses, inflight, standin, first,
                   element, norm>>

Next ==
    \/ StartCategory
    \/ NextList
    \/ Return
    \/ Post
    \/ Respond
    \/ Handle
    \/ Sleep
    \/ Abort
    \/ Render

Spec == Init /\ [][Next]_vars

\* the script is the only thread and every call it makes returns, raises
\* or times out, so a step that can be taken is taken
FairSpec == Spec /\ WF_vars(Next)

(***************************************************************************)
(* Two runs against endpoint stand-ins: every stand-in answers each request *)
(* it gets in the same way, the acquisition function is called, and then   *)
(* called again.                                                           *)
(***************************************************************************)
\* what a stand-in can be set up to answer
StandinResponses ==
    {[kind |-> "raise", error |-> "Timeout"],
     [kind |-> "http", status |-> 429,
      body |-> [parses |-> TRUE, json |-> [elements |-> <<Plain>>]]],
     [kind |-> "http", status |-> 200, body |-> [parses |-> FALSE]],
     [kind |-> "http", status |-> 200,
      body |-> [parses |-> TRUE, json |-> [elements |-> <<Plain, BadLat>>]]],
     [kind |-> "http", status |-> 200,
      body |-> [parses |-> TRUE, json |-> [elements |-> <<Tagged, NoLon>>]]]}

\* one fixed answer per endpoint
Standins == [1..NumEndpoints -> StandinResponses]

InitStandin ==
    /\ InitRun
    /\ standin \in Standins
    /\ first = NoResult
    /\ element = EmptyDict
    /\ norm = [status |-> "none"]

\* the stand-in of the current endpoint answers
RespondStandin ==
    /\ pc = "wait"
    /\ response' = standin[ei]
    /\ inflight' = inflight - 1
    /\ pc' = "recv"
    /\ printed' = <<>>
    /\ UNCHANGED <<script, li, ci, ei, success, data, request, attempts,
                   outcomes, base, pauses, map, standin, first, element, norm>>

RerunSharedList ==
    /\ pc = "done"
    /\ ~first.returned
    /\ first' = [returned |-> TRUE, data |-> data]
    /\ pc' = "loop"
    /\ li' = 1
    /\ ci' = 1
    /\ ei' = 1
    /\ success' = FALSE
    /\ request' = NoRequest
    /\ attempts' = 0
    /\ response' = NoResponse
    /\ printed' = <<>>
    /\ outcomes' = <<>>
    /\ base' = 0
    /\ pauses' = 0
    /\ UNCHANGED <<script, data, inflight, map, standin, element, norm>>

\* the acquisition function has returned and is called a second time: its
\* locals, the collections among them, are created afresh
Rerun ==
    /\ pc = "done"
    /\ ~first.returned
    /\ first' = [returned |-> TRUE, data |-> data]
    /\ pc' = "loop"
    /\ li' = 1
    /\ ci' = 1
    /\ ei' = 1
    /\ success' = FALSE
    /\ data' = [l \in 1..NumLists(script) |-> <<>>]
    /\ request' = NoRequest
    /\ attempts' = 0
    /\ response' = NoResponse
    /\ printed' = <<>>
    /\ outcomes' = <<>>
    /\ base' = 0
    /\ pauses' = 0
    /\ UNCHANGED <<script, inflight, map, standin, element, norm>>

NextStandin ==
    \/ StartCategory
    \/ NextList
    \/ Return
    \/ Post
    \/ RespondStandin
    \/ Handle
    \/ Sleep
    \/ Rerun

SpecStandin == InitStandin /\ [][NextStandin]_vars

(***************************************************************************)
(* The loop body on its own: one raw element of one category of one list   *)
(* of one script is put through the body of the element loop.              *)
(***************************************************************************)
TagValues == {"yes", "no", "limited", "public", "designated"}

\* the tag keys the generated elements carry, per script and list
ProbeKeys(s, l) ==
    CASE s = "business"  -> {"wheelchair", "name", "website", "braille"}
      [] s = "emergency" -> {"wheelchair", "name", "emergency", "guide_dog"}
      [] s = "tourist"   -> {"wheelchair", "audio_guide", "sign_language",
                             "braille", "website"}
      [] s = "restroom"  -> {"wheelchair", "baby_change", "drinking_water",
                             "fee", "access"}
      [] s = "transport" -> {"wheelchair", "name", "platform:level", "lift"}
      [] s = "heatmap"   -> {"wheelchair", "name", "amenity"}
      [] s = "parking"   -> IF l = 1 THEN {"wheelchair", "fee", "name"}
                            ELSE {"socket", "fee", "name"}
      [] s = "school"    -> IF l = 1 THEN {"wheelchair", "website", "name"}
                            ELSE {"name", "description"}

\* every dict with keys among K and values among V
Dicts(K, V) == UNION {[D -> V] : D \in SUBSET K}

\* every element with or without each coordinate, convertible or not, and
\* with or without a 'tags' dict over the probe keys
HarnessElements(s, l) ==
    {c @@ t : c \in Dicts({"lat", "lon"}, {"48.8566", "abc"}),
              t \in {EmptyDict}
                    \cup {[tags |-> d] : d \in Dicts(ProbeKeys(s, l),
                                                     TagValues)}}

InitNorm ==
    /\ script \in Scripts
    /\ li \in 1..NumLists(script)
    /\ ci \in 1..Len(Categories(script, li))
    /\ pc = "element"
    /\ element \in HarnessElements(script, li)
    /\ norm = [status |-> "none"]
    /\ ei = 1
    /\ success = FALSE
    /\ data = [l \in 1..NumLists(script) |-> <<>>]
    /\ request = NoRequest
    /\ attempts = 0
    /\ response = NoResponse
    /\ printed = <<>>
    /\ outcomes = <<>>
    /\ base = 0
    /\ pauses = 0
    /\ inflight = 0
    /\ map = NoMap
    /\ standin = NoStandin
    /\ first = NoResult

\* the body of the element loop runs on the element
Normalise ==
    /\ pc = "element"
    /\ norm' = LoopBody(script, li, Category, element)
    /\ data' = [data EXCEPT ![li] =
                   IF norm'.status = "appended" THEN Append(@, norm'.record)
                   ELSE @]
    /\ pc' = "normalised"
    /\ UNCHANGED <<script, li, ci, ei, success, request, attempts, response,
                   printed, outcomes, base, pauses, inflight, map, standin,
                   first, element>>

\* the caller's rendering of the collection that holds the record
Draw ==
    /\ pc = "normalised"
    /\ norm.status = "appended"
    /\ map' = [built |-> TRUE, markers |-> Markers(script, data),
               file |-> OutputFile(script)]
    /\ pc' = "drawn"
    /\ printed' = <<<<"saved as", OutputFile(script)[2]>>,
                    <<"Found", [l \in DOMAIN data |-> Len(data[l])]>>>>
    /\ UNCHANGED <<script, li, ci, ei, success, data, request, attempts,
                   response, outcomes, base, pauses, inflight, standin, first,
                   element, norm>>

NextNorm ==
    \/ Normalise
    \/ Draw

SpecNorm == InitNorm /\ [][NextNorm]_vars

(***************************************************************************)
(* Properties.                                                             *)
(***************************************************************************)
\* a request is issued in this step
Issued == pc = "post" /\ pc' = "wait"

\* the try statement for one endpoint ends in this step
Handled == pc = "recv" /\ pc' # "recv"

\* s is a prefix of t
IsPrefix(s, t) == Len(s) <= Len(t) /\ SubSeq(t, 1, Len(s)) = s

\* the categories a script runs, all lists in the order of its loops
AllCategories(s) ==
    IF NumLists(s) = 1 THEN Categories(s, 1)
    ELSE Categories(s, 1) \o Categories(s, 2)

\* C1: for every category the j-th request goes to the j-th endpoint of the
\* list and carries the category's query, no request is issued once the
\* category has succeeded, and when the category has succeeded the number
\* of requests made for it is the position of the endpoint that answered
C1_FailoverInOrder ==
    /\ [][Issued =>
            /\ attempts' = attempts + 1
            /\ request'.url = overpass_endpoints[attempts']
            /\ request'.data = Query(script, li, AllCategories(script)[Cur])
            /\ ~success]_vars
    /\ [](pc = "sleep" /\ success =>
            /\ request.url = overpass_endpoints[attempts]
            /\ printed = <<<<"Successfully fetched",
                             AllCategories(script)[Cur], request.url>>>>)

\* endpoints 1 and 2 failed and endpoint 3 answered: three requests
C1_Witness ==
    /\ pc = "sleep" /\ success
    /\ attempts = 3
    /\ request.url = overpass_endpoints[3]

\* C4: handling a response whose status is not 200, whatever its body,
\* leaves the collections as they are and the flag clear, and moves on to
\* the next endpoint when there is one
C4_Only200Accepted ==
    [][Handled /\ response.kind = "http" /\ response.status # 200 =>
          /\ data' = data
          /\ ~success'
          /\ IF attempts < NumEndpoints
             THEN pc' = "post" /\ Endpoint' = overpass_endpoints[attempts + 1]
             ELSE pc' = "sleep"]_vars

\* a 204 response with a parseable body holding elements was handled as a
\* failure and the second endpoint is next
C4_Witness ==
    /\ pc = "post" /\ ei = 2
    /\ response.kind = "http" /\ response.status = 204
    /\ response.body.parses
    /\ "elements" \in DOMAIN response.body.json
    /\ response.body.json.elements # <<>>
    /\ data[li] = <<>>

\* C6: when the acquisition function returns, the categories that reached
\* a terminal state are exactly the categories of its lists, each once and
\* in list order; no step removes or changes a record already collected
C6_AllCategoriesInOrder ==
    /\ [](pc = "done" =>
            [i \in 1..Len(outcomes) |-> outcomes[i][1]] = AllCategories(script))
    /\ [][/\ IsPrefix(outcomes, outcomes')
          /\ \A l \in 1..NumLists(script) : IsPrefix(data[l], data'[l])]_vars

\* the first category produced records, the second exhausted its
\* endpoints, and the function returned with the records of the first
C6_Witness ==
    /\ pc = "done"
    /\ outcomes[1][2] = "Succeeded"
    /\ outcomes[2][2] = "ExhaustedEndpoints"
    /\ Len(data[1]) > 0
    /\ data[1][1].type = AllCategories(script)[1]

\* the state of the category at position g of the script's lists
CatState(g) ==
    IF g <= Len(outcomes) THEN <<outcomes[g][2]>>
    ELSE IF g = Cur /\ pc \in {"post", "wait", "recv"}
         THEN <<"Fetching", ei>>
         ELSE <<"Pending">>

Terminal(st) == st \in {<<"Succeeded">>, <<"ExhaustedEndpoints">>}

\* the transitions of the per-category state machine
Trans(a, b) ==
    \/ a = b
    \/ a = <<"Pending">> /\ b = <<"Fetching", 1>>
    \/ /\ a[1] = "Fetching"
       /\ \/ b = <<"Succeeded">>
          \/ b = <<"Fetching", a[2] + 1>>
          \/ b = <<"ExhaustedEndpoints">>

\* C7: every category moves only along Pending -> Fetching(1),
\* Fetching(i) -> Succeeded | Fetching(i+1) | ExhaustedEndpoints; a request
\* is only ever issued for the category that is Fetching, to the endpoint
\* of its state, so none is issued for a category in a terminal state; and
\* once a category is terminal the next category eventually leaves Pending
C7_CategoryStateMachine ==
    /\ [][\A g \in 1..(2 * MaxCats) : Trans(CatState(g), CatState(g)')]_vars
    /\ [][Issued =>
            /\ CatState(Cur) = <<"Fetching", attempts + 1>>
            /\ request'.data = Query(script, li, AllCategories(script)[Cur])
            /\ request'.url = overpass_endpoints[attempts + 1]]_vars
    /\ \A g \in 1..(2 * MaxCats) :
          (Terminal(CatState(g)) /\ g < TotalCats(script))
              ~> (CatState(g + 1) # <<"Pending">>)

\* the first category exhausted its endpoints and the second one is at its
\* second endpoint
C7_Witness ==
    /\ CatState(1) = <<"ExhaustedEndpoints">>
    /\ CatState(2) = <<"Fetching", 2>>
    /\ pc = "wait"

\* the records of the elements of a list that carry both coordinates
RECURSIVE Normalised(_, _, _, _)
Normalised(s, l, cat, elems) ==
    IF elems = <<>> THEN <<>>
    ELSE (IF {"lat", "lon"} \subseteq DOMAIN Head(elems)
          THEN <<Record(s, l, cat, Head(elems))>> ELSE <<>>)
         \o Normalised(s, l, cat, Tail(elems))

\* the records the current category has added to its collection
Added == SubSeq(data[li], base + 1, Len(data[li]))

\* an attempt has just been handled as a failure
JustFailed == pc \in {"post", "sleep"} /\ response # NoResponse /\ ~success

\* C2: when a category has succeeded, the records it added are exactly
\* the normalised elements of the response that succeeded (failed attempts,
\* those that raised while elements were processed included, added none)
C2_OnlySuccessfulResponseAdds ==
    pc = "sleep" /\ success =>
        Added = Normalised(script, li, AllCategories(script)[Cur],
                           ElementsOf(response))

\* C3: when every endpoint has failed for a category, the category has
\* added no record and the run is at the pause before the next category
C3_ExhaustedAddsNothing ==
    ~success /\ Len(outcomes) = Cur /\ pc # "done" =>
        /\ pc = "sleep"
        /\ outcomes[Cur] = <<AllCategories(script)[Cur], "ExhaustedEndpoints">>
        /\ Added = <<>>

\* C5: every attempt that failed, whatever the kind of failure, has been
\* recorded by a line naming its endpoint before the next endpoint is tried
C5_EveryFailureRecorded ==
    JustFailed =>
        \E i \in 1..Len(printed) :
            /\ printed[i][1] = "Error with endpoint"
            /\ printed[i][2] = request.url

\* a response with status 200 and a parsed body in which some element
\* lacks a coordinate and every element with both has convertible ones
DropsOnly(resp) ==
    /\ resp.kind = "http" /\ resp.status = 200 /\ resp.body.parses
    /\ LET es == ElementsOf(resp) IN
       /\ \E i \in 1..Len(es) : ~({"lat", "lon"} \subseteq DOMAIN es[i])
       /\ \A i \in 1..Len(es) :
             {"lat", "lon"} \subseteq DOMAIN es[i] =>
                 CanFloat(es[i]["lat"]) /\ CanFloat(es[i]["lon"])

\* C9: handling such a response succeeds: it appends exactly the records of
\* the elements that carry both coordinates, in order, sets the flag,
\* prints the success line alone and ends the category
C9_MissingCoordinatesDropped ==
    [][Handled /\ DropsOnly(response) =>
          /\ data'[li] = data[li]
                 \o Normalised(script, li, AllCategories(script)[Cur],
                               ElementsOf(response))
          /\ success'
          /\ pc' = "sleep"
          /\ printed' = <<<<"Successfully fetched",
                            AllCategories(script)[Cur], request.url>>>>
          /\ outcomes' = Append(outcomes, <<AllCategories(script)[Cur],
                                            "Succeeded">>)]_vars

\* a body with an element without longitude and a tagged element with
\* both coordinates was handled: one record was added
C9_Witness ==
    /\ pc = "sleep" /\ success
    /\ response.kind = "http" /\ response.body.parses
    /\ ElementsOf(response) = <<NoLon, Tagged>>
    /\ Len(Added) = 1

\* the element of the harness has both coordinates, convertible, and no tag
Untagged(e) ==
    /\ {"lat", "lon"} \subseteq DOMAIN e
    /\ CanFloat(e["lat"]) /\ CanFloat(e["lon"])
    /\ "tags" \in DOMAIN e => e["tags"] = EmptyDict

\* the fields of a record read from optional tags, the display name and
\* the heatmap's type (which default to a label) left aside
OptionalFields(rec) ==
    DOMAIN rec \ {"lat", "lon", "name", "type", "score", "weight",
                  "accessibility"}

\* the fields whose default is the empty string
EmptyDefaults(s, l) ==
    CASE s = "tourist" -> {"website", "description", "historic", "wikipedia"}
      [] s = "school"  -> IF l = 1 THEN {"website", "description"}
                          ELSE {"description"}
      [] OTHER         -> {}

\* C8 as claimed: an element with both coordinates and no tag gives a
\* record whose optional fields all equal "unknown", in every script
C8_AllDefaultsUnknown ==
    pc = "normalised" /\ Untagged(element) =>
        /\ norm.status = "appended"
        /\ \A f \in OptionalFields(norm.record) : norm.record[f] = "unknown"

\* C8 as amended: such an element always gives a record; its optional
\* fields equal "unknown", except the free-text fields of the tourist and
\* school-safety records, which equal the empty string; every entry of an
\* accessibility mapping equals "unknown"
C8_DefaultsPerField ==
    pc = "normalised" /\ Untagged(element) =>
        /\ norm.status = "appended"
        /\ \A f \in OptionalFields(norm.record) :
              norm.record[f] = IF f \in EmptyDefaults(script, li) THEN ""
                               ELSE "unknown"
        /\ "accessibility" \in DOMAIN norm.record =>
              \A f \in DOMAIN norm.record.accessibility :
                  norm.record.accessibility[f] = "unknown"

\* an element of the tourist guide without a 'tags' key was normalised
C8_Witness ==
    /\ pc = "normalised" /\ script = "tourist"
    /\ DOMAIN element = {"lat", "lon"}
    /\ norm.status = "appended"
    /\ norm.record.website = "" /\ norm.record.fee = "unknown"

\* the features the two scoring scripts weigh, and the weight of each
ScoreWeights(s) ==
    IF s = "tourist"
    THEN [wheelchair |-> 2, audio_guide |-> 1, sign_language |-> 1,
          braille |-> 1]
    ELSE [wheelchair |-> 2, baby_change |-> 1, drinking_water |-> 1,
          fee |-> 1, access |-> 1]

\* the tag value that earns a feature its weight
ScoringValue(s, f) ==
    IF s = "restroom" /\ f = "fee" THEN "no"
    ELSE IF s = "restroom" /\ f = "access" THEN "public"
    ELSE "yes"

\* the sum of the values of a function with a finite domain
RECURSIVE SumOf(_)
SumOf(g) ==
    IF DOMAIN g = {} THEN 0
    ELSE LET x == CHOOSE y \in DOMAIN g : TRUE
         IN g[x] + SumOf([y \in DOMAIN g \ {x} |-> g[y]])

\* the tags of the harness element
ElementTags == Get(element, "tags", EmptyDict)

Scored == pc = "normalised" /\ norm.status = "appended"
          /\ script \in {"tourist", "restroom"}

\* C10 as claimed: the score is the sum of the weights of the features
\* whose tag value is "yes"
C10_ScoreSumsYes ==
    Scored =>
        norm.record.score =
            SumOf([f \in DOMAIN ScoreWeights(script) |->
                      IF Get(ElementTags, f, "absent") = "yes"
                      THEN ScoreWeights(script)[f] ELSE 0])

\* C10 as amended: the score is the sum of the weights of the features
\* whose tag has the scoring value: "yes", except fee, which scores when it
\* is "no", and access, which scores when it is "public", in the restroom
\* finder; an absent tag or any other value contributes zero
C10_ScoreSumsScoringValues ==
    Scored =>
        norm.record.score =
            SumOf([f \in DOMAIN ScoreWeights(script) |->
                      IF Get(ElementTags, f, "absent") = ScoringValue(script, f)
                      THEN ScoreWeights(script)[f] ELSE 0])

\* a restroom with wheelchair=yes, fee=no, access=public and nothing else
\* scores 4; the same holds of a tourist record with two "yes" features
C10_Witness ==
    /\ Scored /\ script = "restroom"
    /\ ElementTags = [wheelchair |-> "yes", fee |-> "no", access |-> "public"]
    /\ norm.record.score = 4

\* a tourist record was produced by the loop body
TouristScored == pc = "normalised" /\ norm.status = "appended"
                 /\ script = "tourist"

\* C11: a tourist-guide record with wheelchair "yes", audio_guide "yes" and
\* the other two scored features "unknown" has score 3, and one whose four
\* scored features are all "unknown" has score 0
C11_TouristExamples ==
    TouristScored =>
        /\ (/\ norm.record.wheelchair = "yes"
            /\ norm.record.audio_guide = "yes"
            /\ norm.record.sign_language = "unknown"
            /\ norm.record.braille = "unknown") => norm.record.score = 3
        /\ (\A f \in DOMAIN ScoreWeights("tourist") :
                norm.record[f] = "unknown") => norm.record.score = 0

\* the element tagged wheelchair=yes and audio_guide=yes alone scored 3
C11_Witness ==
    /\ TouristScored
    /\ ElementTags = [wheelchair |-> "yes", audio_guide |-> "yes"]
    /\ norm.record.sign_language = "unknown"
    /\ norm.record.braille = "unknown"
    /\ norm.record.score = 3

\* no collection holds a record
NoRecords == \A l \in 1..NumLists(script) : data[l] = <<>>

\* C12: when the acquisition function has returned and no collection holds
\* a record, the only step of the caller is to print and return: no map is
\* built, no file is saved, and the collections stay empty; a caller that
\* aborted has never built a map
C12_EmptyResultAborts ==
    /\ [][pc = "done" /\ NoRecords =>
            /\ pc' = "aborted"
            /\ map' = NoMap
            /\ data' = data]_vars
    /\ [](pc = "aborted" => map = NoMap)

\* one category succeeded with nothing to add, the other exhausted its
\* endpoints, and the caller returned without a map
C12_Witness ==
    /\ pc = "aborted" /\ NoRecords /\ map = NoMap
    /\ \E i \in 1..Len(outcomes) : outcomes[i][2] = "Succeeded"
    /\ \E i \in 1..Len(outcomes) : outcomes[i][2] = "ExhaustedEndpoints"

\* C20: the caller aborts only when no category of any list produced a
\* record
C20_AbortsOnlyWhenEmpty ==
    pc = "aborted" => NoRecords

\* C13: whenever a request is issued, every category before the current
\* one has reached its terminal state and the pause after each of them has
\* completed; a pause is only ever taken after the terminal state of the
\* category it follows; this holds across the boundary of two lists too
C13_PauseBetweenCategories ==
    /\ [][Issued => pauses = Cur - 1 /\ Len(outcomes) = Cur - 1]_vars
    /\ [](pauses <= Len(outcomes) /\ Len(outcomes) <= pauses + 1)
    /\ [][pauses' # pauses => pauses' = Len(outcomes)]_vars

\* the first request of the first category of the second list is in
\* flight, after as many pauses as the first list has categories
C13_Witness ==
    /\ pc = "wait" /\ li = 2 /\ ci = 1 /\ attempts = 1
    /\ pauses = Len(Categories(script, 1))

\* C14: at most one request is in flight at any time; a request is issued
\* only when none is in flight, and the one in flight is the one the
\* function is blocked on
C14_OneRequestInFlight ==
    /\ [](inflight \in {0, 1})
    /\ [](inflight = 1 <=> pc = "wait")
    /\ [][Issued => inflight = 0 /\ inflight' = 1]_vars

\* the request to the second endpoint is in flight, the one to the first
\* endpoint having returned or raised
C14_Witness ==
    /\ pc = "wait" /\ attempts = 2 /\ inflight = 1
    /\ request.url = overpass_endpoints[2]

\* C15: the second run against the same stand-ins builds the collections
\* of the first run record by record, and returns collections equal to
\* those the first run returned: same records, same values, same order
C15_RunsAgree ==
    first.returned =>
        /\ \A l \in 1..NumLists(script) : IsPrefix(data[l], first.data[l])
        /\ pc = "done" => data = first.data

\* both runs have returned two records or more, the second endpoint having
\* answered after the first failed while processing its elements
C15_Witness ==
    /\ first.returned /\ pc = "done"
    /\ data = first.data
    /\ Len(data[1]) >= 2
    /\ standin[1].kind = "http" /\ standin[1].status = 200
    /\ standin[1].body.parses
    /\ standin[1].body.json.elements = <<Plain, BadLat>>
    /\ standin[2].kind = "http" /\ standin[2].status = 200

\* a clause of the given kind over the bounding box, in the order south,
\* west, north, east, with a tag filter whose value is the category
ClauseFor(clause, kind, cat) ==
    /\ clause[1] = kind
    /\ clause[3] = <<bbox.south, bbox.west, bbox.north, bbox.east>>
    /\ \E j \in 1..Len(clause[2]) :
          Len(clause[2][j]) = 2 /\ clause[2][j][2] = cat

\* C16: the query of every request holds a node clause and a way clause,
\* each with the four bounding-box numbers and a tag filter on the exact
\* category value; the query is determined by the script, the list and
\* the category, so every endpoint tried for a category gets the same one
C16_QueryHoldsBoxAndCategory ==
    [][Issued =>
          LET q == request'.data
              cat == AllCategories(script)[Cur]
          IN /\ ClauseFor(q[2], "node", cat)
             /\ ClauseFor(q[3], "way", cat)
             /\ q = Query(script, li, cat)
             /\ attempts > 0 => q = request.data]_vars

\* the second request for a school type is in flight with the query that
\* filters on amenity=school and on the school type
C16_Witness ==
    /\ pc = "wait" /\ script = "school" /\ li = 1 /\ attempts = 2
    /\ request.data[3][2] = <<<<"amenity", "school">>,
                              <<"school:type", "primary">>>>

\* the first endpoint answered the current category with status 200 and
\* two elements with coordinates, the first tagged wheelchair=yes, the
\* second without tags, and the response has been processed
TwoElementRun(s) ==
    /\ script = s /\ pc = "sleep" /\ success /\ attempts = 1
    /\ response.kind = "http" /\ response.status = 200
    /\ response.body.parses
    /\ ElementsOf(response) = <<Tagged, Plain>>

\* the optional fields of a record that the tags of element e do not give
\* (the address is read from the tag addr:full)
NotTagged(rec, e) ==
    OptionalFields(rec) \ DOMAIN Get(e, "tags", EmptyDict)

\* C17 as claimed: for category restaurant the run adds exactly two
\* records, with scores 2 and 0, and every optional field that is not in
\* the tags equals "unknown" on both
C17_TwoRecordsScored ==
    TwoElementRun("business") /\ AllCategories(script)[Cur] = "restaurant" =>
        /\ Len(Added) = 2
        /\ \A i \in 1..2 : "score" \in DOMAIN Added[i]
        /\ Added[1].score = 2 /\ Added[2].score = 0
        /\ \A f \in NotTagged(Added[1], Tagged) : Added[1][f] = "unknown"
        /\ \A f \in NotTagged(Added[2], Plain) : Added[2][f] = "unknown"

\* C17 as amended: in the business directory, category restaurant, the run
\* adds exactly two records, wheelchair "yes" and "unknown", without a
\* score, every optional field and accessibility entry that is not in the
\* tags being "unknown"; in the tourist guide the same response adds two
\* records with scores 2 and 0, every optional field that is not in the
\* tags being "unknown", or "" for the free-text fields
C17_TwoRecords ==
    /\ TwoElementRun("business") /\ AllCategories(script)[Cur] = "restaurant"
        => /\ Len(Added) = 2
           /\ Added[1].wheelchair = "yes" /\ Added[2].wheelchair = "unknown"
           /\ \A i \in 1..2 :
                 /\ "score" \notin DOMAIN Added[i]
                 /\ Added[i].type = "restaurant"
                 /\ \A f \in business_accessibility_features \ {"wheelchair"} :
                       Added[i].accessibility[f] = "unknown"
           /\ Added[1].accessibility.wheelchair = "yes"
           /\ Added[2].accessibility.wheelchair = "unknown"
           /\ \A f \in NotTagged(Added[1], Tagged) : Added[1][f] = "unknown"
           /\ \A f \in NotTagged(Added[2], Plain) : Added[2][f] = "unknown"
    /\ TwoElementRun("tourist")
        => /\ Len(Added) = 2
           /\ Added[1].score = 2 /\ Added[2].score = 0
           /\ \A f \in NotTagged(Added[1], Tagged) :
                 Added[1][f] = IF f \in EmptyDefaults("tourist", 1) THEN ""
                               ELSE "unknown"
           /\ \A f \in NotTagged(Added[2], Plain) :
                 Added[2][f] = IF f \in EmptyDefaults("tourist", 1) THEN ""
                               ELSE "unknown"

\* the business directory processed the two elements for restaurant
C17_Witness ==
    /\ TwoElementRun("business")
    /\ AllCategories(script)[Cur] = "restaurant"
    /\ Len(Added) = 2
    /\ Added[1].wheelchair = "yes"

\* the values the record gives for accessibility features: its wheelchair
\* field and the entries of its accessibility mapping
FeatureValues(rec) ==
    (IF "wheelchair" \in DOMAIN rec THEN {rec.wheelchair} ELSE {})
    \cup (IF "accessibility" \in DOMAIN rec
          THEN {rec.accessibility[f] : f \in DOMAIN rec.accessibility}
          ELSE {})

\* C18: every accessibility-feature value of a record is one of "yes",
\* "no", "limited", "unknown", whatever the tags of the element hold
C18_FeatureValuesInDomain ==
    pc = "normalised" /\ norm.status = "appended" =>
        FeatureValues(norm.record) \subseteq {"yes", "no", "limited", "unknown"}

\* C19: no step removes, moves or changes a record of a collection: every
\* record stays at its position with all its fields, the score among
\* them, and a collection never gets shorter
C19_AppendOnly ==
    [][\A l \in 1..NumLists(script) :
          /\ Len(data'[l]) >= Len(data[l])
          /\ \A i \in 1..Len(data[l]) : data'[l][i] = data[l][i]]_vars

\* a second category has appended a record behind the record of an
\* earlier category, which is still the first of the collection
C19_Witness ==
    /\ pc = "sleep" /\ success
    /\ base = 1 /\ Len(data[li]) = 2
    /\ Len(outcomes) = 2 /\ li = 1

\* the scored conditions of the current script that the tags of the
\* harness element satisfy
ScoredFeatures ==
    {f \in DOMAIN ScoreWeights(script) :
        Get(ElementTags, f, "absent") = ScoringValue(script, f)}

\* the record of the harness element has been rendered
DrawnFor(s) == pc = "drawn" /\ script = s

\* C21: the marker of a restroom is green exactly when the restroom has 4
\* or more of the scored features, yellow exactly when it has 2 or 3, red
\* exactly when it has 0 or 1, as the legend says
C21_ColourByFeatureCount ==
    DrawnFor("restroom") =>
        LET c == map.markers[1][1].color
            n == Cardinality(ScoredFeatures)
        IN /\ c \in {"green", "yellow", "red"}
           /\ c = "green" <=> n >= 4
           /\ c = "yellow" <=> n \in {2, 3}
           /\ c = "red" <=> n <= 1

\* a record with a score has been produced
HasScore == pc \in {"normalised", "drawn"} /\ norm.status = "appended"
            /\ script \in {"tourist", "restroom"}

\* C27: a tourist score lies in 0..5 and a restroom score in 0..6, for
\* every combination of tag values, and the score is the maximum exactly
\* when every scored condition holds
C27_ScoresBounded ==
    HasScore =>
        LET max == IF script = "tourist" THEN 5 ELSE 6 IN
        /\ norm.record.score \in 0..max
        /\ norm.record.score = max <=>
               ScoredFeatures = DOMAIN ScoreWeights(script)

\* a restroom that satisfies all five conditions scored 6
C27_Witness ==
    /\ HasScore /\ script = "restroom"
    /\ ElementTags = [wheelchair |-> "yes", baby_change |-> "yes",
                      drinking_water |-> "yes", fee |-> "no",
                      access |-> "public"]
    /\ norm.record.score = 6

\* C28: in the heatmap the weight is 10 tenths when the wheelchair tag is
\* "yes", 5 when it is "limited" and 0 for any other or absent value; the
\* record has a marker exactly when its weight is positive, green for the
\* full weight and yellow for half of it; with or without a marker the
\* record is in the collection and in the count that is printed
C28_HeatmapWeightAndMarker ==
    DrawnFor("heatmap") =>
        LET w == Get(ElementTags, "wheelchair", "absent")
            rec == norm.record
        IN /\ rec.weight = (IF w = "yes" THEN 10
                            ELSE IF w = "limited" THEN 5 ELSE 0)
           /\ map.markers[1] =
                  (IF rec.weight > 0
                   THEN <<[record |-> rec,
                           color |-> IF rec.weight = 10 THEN "green"
                                     ELSE "yellow"]>>
                   ELSE <<>>)
           /\ data[1] = <<rec>>
           /\ printed[2] = <<"Found", <<Len(data[1])>>>>

\* a place tagged wheelchair=limited got half the weight and a yellow
\* marker
C28_Witness ==
    /\ DrawnFor("heatmap")
    /\ Get(ElementTags, "wheelchair", "absent") = "limited"
    /\ norm.record.weight = 5
    /\ map.markers[1][1].color = "yellow"

\* C22: every request, whatever the script, the list, the category and the
\* endpoint, is issued with timeout 30 and with certificate validation
\* switched off
C22_TimeoutAndNoVerify ==
    [][Issued => /\ request'.verify = FALSE
                 /\ request'.timeout = 30
                 /\ request'.url = Endpoint]_vars

\* a request of the second category list went to the third endpoint
C22_Witness ==
    /\ pc = "wait" /\ li = 2 /\ attempts = 3
    /\ request.url = overpass_endpoints[3]
    /\ request.verify = FALSE /\ request.timeout = 30

\* C24: the first request of every category goes to the first endpoint
\* of the list, whichever endpoint the category before ended on; the
\* j-th endpoint tried for a category is the j-th of the compiled-in list
C24_RestartsAtFirstEndpoint ==
    /\ [][Issued /\ attempts = 0 =>
            request'.url = overpass_endpoints[1] /\ ei = 1]_vars
    /\ [][Issued => request'.url = overpass_endpoints[attempts + 1]]_vars
    /\ [][pc = "loop" /\ pc' = "post" => ei' = 1]_vars

\* the category before ended on the third endpoint and the first request
\* of this one is in flight to the first
C24_Witness ==
    /\ pc = "wait" /\ attempts = 1 /\ Cur = 2
    /\ request.url = overpass_endpoints[1]
    /\ outcomes[1][2] = "ExhaustedEndpoints"

\* a response with status 200 whose body is a JSON object without the
\* key 'elements' or with an empty list under it
EmptyBody(resp) ==
    /\ resp.kind = "http" /\ resp.status = 200 /\ resp.body.parses
    /\ \/ "elements" \notin DOMAIN resp.body.json
       \/ resp.body.json.elements = <<>>

\* C26: handling such a response is a success: no record is added, the
\* category ends as Succeeded without a further endpoint being tried, and
\* only the success line is printed; so a run can end with no record and
\* no exhausted category
C26_EmptyBodySucceeds ==
    [][Handled /\ EmptyBody(response) =>
          /\ data' = data
          /\ success'
          /\ pc' = "sleep"
          /\ outcomes' = Append(outcomes, <<AllCategories(script)[Cur],
                                            "Succeeded">>)
          /\ printed' = <<<<"Successfully fetched",
                            AllCategories(script)[Cur], request.url>>>>]_vars

\* the last category got a body without 'elements' from the first
\* endpoint: every category has succeeded and there is no record
C26_Witness ==
    /\ pc = "sleep" /\ success /\ attempts = 1
    /\ response.kind = "http" /\ response.body.parses
    /\ "elements" \notin DOMAIN response.body.json
    /\ Len(outcomes) = TotalCats(script)
    /\ \A i \in 1..Len(outcomes) : outcomes[i][2] = "Succeeded"
    /\ NoRecords

\* the members of a sequence
Range(seq) == {seq[i] : i \in 1..Len(seq)}

\* C29: while a category of one list is processed the collection of the
\* other list does not change, and the type of every record is a category
\* of the list of the collection that holds it
C29_CollectionsSeparate ==
    /\ [][\A l \in 1..NumLists(script) : l # li => data'[l] = data[l]]_vars
    /\ [](script \in {"parking", "school"} =>
            \A l \in 1..2 : \A i \in 1..Len(data[l]) :
                data[l][i].type \in Range(CategoryLists(script)[l]))

\* both collections of the parking script hold a record
C29_Witness ==
    /\ script = "parking" /\ li = 2 /\ pc = "sleep"
    /\ Len(data[1]) = 1 /\ Len(data[2]) = 1
    /\ data[1][1].type \in Range(parking_types)
    /\ data[2][1].type \in Range(charging_types)

\* C23: a category makes at most as many requests as there are endpoints
\* and has made at least one when it reaches its terminal state; no more
\* categories end than the lists hold, so a run makes at most that many
\* times the number of endpoints requests; and, every request returning or
\* raising, the acquisition function returns
C23_AcquisitionTerminates ==
    /\ [](attempts \in 0..NumEndpoints)
    /\ [](pc = "sleep" => attempts >= 1)
    /\ [](Len(outcomes) <= TotalCats(script))
    /\ [](pc \in {"post", "wait", "recv"} =>
            (Cur - 1) * NumEndpoints + attempts
                <= TotalCats(script) * NumEndpoints)
    /\ [][Issued => attempts < NumEndpoints /\ Len(outcomes) = Cur - 1]_vars
    /\ <>(pc = "done" /\ Len(outcomes) = TotalCats(script))

\* every category used up all the endpoints and the function returned
C23_Witness ==
    /\ pc = "done" /\ attempts = NumEndpoints
    /\ Len(outcomes) = TotalCats(script)
    /\ \A i \in 1..Len(outcomes) : outcomes[i][2] = "ExhaustedEndpoints"

\* the stand-in answers with status 200 and a body whose elements are
\* processed without an exception
Clean(resp) ==
    /\ resp.kind = "http" /\ resp.status = 200 /\ resp.body.parses
    /\ \A i \in 1..Len(ElementsOf(resp)) :
          LET e == ElementsOf(resp)[i] IN
          {"lat", "lon"} \subseteq DOMAIN e =>
              CanFloat(e["lat"]) /\ CanFloat(e["lon"])

\* the stand-in fails while its elements are processed
FailsInProcessing(resp) ==
    /\ resp.kind = "http" /\ resp.status = 200 /\ resp.body.parses
    /\ ~Clean(resp)

\* the endpoints whose stand-in answers cleanly
CleanEndpoints == {j \in 1..NumEndpoints : Clean(standin[j])}

\* the first of them: the endpoint every category succeeds on
Answering == CHOOSE j \in CleanEndpoints : \A k \in CleanEndpoints : j <= k

\* no attempt of the run fails while elements are processed: no stand-in
\* that is tried does
NoProcessingFailure ==
    \A j \in 1..NumEndpoints :
        (CleanEndpoints = {} \/ j < Answering) => ~FailsInProcessing(standin[j])

\* the normalised elements of the response each category of a list
\* succeeded with, category after category
RECURSIVE Concatenated(_, _, _, _)
Concatenated(s, l, cats, elems) ==
    IF cats = <<>> THEN <<>>
    ELSE Normalised(s, l, Head(cats), elems)
         \o Concatenated(s, l, Tail(cats), elems)

\* the number of elements of a list that carry both coordinates
RECURSIVE WithCoords(_)
WithCoords(elems) ==
    IF elems = <<>> THEN 0
    ELSE (IF {"lat", "lon"} \subseteq DOMAIN Head(elems) THEN 1 ELSE 0)
         + WithCoords(Tail(elems))

====
